---- MODULE Spec2Model ----
(***************************************************************************)
(* Model of the YouTube-music MCP tools (searchTrack, playTrack,           *)
(* downloadTrack) and of the two helpers they drive, openUrlInBrowser and  *)
(* downloadYoutubeAudio.                                                   *)
(*                                                                         *)
(* The repository carries two copies of the tool module:                   *)
(*   "open"     src/unnamed/part_001: playTrack opens the browser;         *)
(*   "download" src/src/tools/youtube.ts: playTrack downloads.             *)
(* The variable `build` says which copy the server process runs.           *)
(*                                                                         *)
(* Every text is a sequence of string tokens; a token is an indivisible    *)
(* run of characters.  In downloader output the tokens are                 *)
(*   "[ExtractAudio]"  "Destination:"  " "  "\n"  and opaque chunks,       *)
(* so that the marker '[ExtractAudio] Destination:' is the token triple    *)
(* <<"[ExtractAudio]", " ", "Destination:">> and 'Destination:' is one     *)
(* token.  Every white-space character of such a text is a token of its    *)
(* own: no other token begins or ends with white space.                    *)
(***************************************************************************)
EXTENDS Integers, Sequences, FiniteSets, TLC

\* ------------------------------------------------------------------ bounds

\* The search API returns at most this many items, whatever was asked for.
MaxItems == 1
\* Largest modification time the file system's clock reaches.
MaxClock == 2
\* The two invocations that may be in flight at once.
Calls == {1, 2}

\* ------------------------------------------------------- program constants

SearchTrackMaxResults == 5
TopResultMaxResults == 1

YOUTUBE_MUSIC_WATCH_URL_PREFIX == "https://music.youtube.com/watch?v="
YOUTUBE_WATCH_URL_PREFIX == "https://www.youtube.com/watch?v="

\* JavaScript's undefined, among string values.
undefined == "<undefined>"

\* ------------------------------------------------------------ text helpers

Min(a, b) == IF a <= b THEN a ELSE b

\* String.prototype.includes on token sequences.
Includes(s, pat) ==
    \E i \in 1..(Len(s) - Len(pat) + 1) : SubSeq(s, i, i + Len(pat) - 1) = pat

\* String.prototype.endsWith on token sequences.
EndsWith(s, suf) ==
    /\ Len(s) >= Len(suf)
    /\ SubSeq(s, Len(s) - Len(suf) + 1, Len(s)) = suf

\* String.prototype.split with a one-token separator: the pieces between
\* the separator's occurrences (always at least one piece).
RECURSIVE Split(_, _)
Split(s, sep) ==
    IF \A i \in 1..Len(s) : s[i] # sep
    THEN <<s>>
    ELSE LET i == CHOOSE k \in 1..Len(s) :
                      s[k] = sep /\ \A j \in 1..(k - 1) : s[j] # sep
         IN  <<SubSeq(s, 1, i - 1)>> \o Split(SubSeq(s, i + 1, Len(s)), sep)

\* The white-space characters a text of the model may hold.
WhiteSpace == {" ", "\t", "\r", "\n", "\f"}

\* String.prototype.trim, on a text whose white-space characters are
\* tokens of their own.
RECURSIVE Trim(_)
Trim(s) ==
    IF s = <<>> THEN s
    ELSE IF s[1] \in WhiteSpace THEN Trim(Tail(s))
    ELSE IF s[Len(s)] \in WhiteSpace THEN Trim(SubSeq(s, 1, Len(s) - 1))
    ELSE s

\* Array.prototype.find: the first element satisfying the test, here
\* "the line includes pat"; <<>> stands for "not found" (no line that
\* includes a non-empty pattern is empty).
FindLine(lines, pat) ==
    IF \E i \in 1..Len(lines) : Includes(lines[i], pat)
    THEN lines[CHOOSE i \in 1..Len(lines) :
                  /\ Includes(lines[i], pat)
                  /\ \A j \in 1..(i - 1) : ~Includes(lines[j], pat)]
    ELSE <<>>

\* path.join(dir, file) for a directory without a trailing separator.
PathJoin(dir, file) == dir \o <<"/">> \o file

\* String.prototype.replace(/x/g, by): every token x replaced by the tokens by.
RECURSIVE ReplaceAll(_, _, _)
ReplaceAll(s, x, by) ==
    IF s = <<>> THEN <<>>
    ELSE (IF s[1] = x THEN by ELSE <<s[1]>>) \o ReplaceAll(Tail(s), x, by)


\* ------------------------------------------------------------------ errors

\* new Error(message), as fs, exec and ofetch reject with; code 0 stands
\* for an error that carries no MCP error code.
JsError(message) == [cls |-> "Error", code |-> 0, message |-> message]

\* A TypeError the JavaScript runtime raises.
TypeError(message) == [cls |-> "TypeError", code |-> 0, message |-> message]

\* ErrorCode.InternalError of the MCP SDK.
InternalError == -32603

\* The text the SDK's McpError constructor puts before the message it is
\* given: `MCP error ${code}: `.
McpErrorPrefix == "MCP error -32603: "

\* new McpError(ErrorCode.InternalError, message)
McpError(message) ==
    [cls |-> "McpError", code |-> InternalError, message |-> <<McpErrorPrefix>> \o message]

NoError == [cls |-> "none", code |-> 0, message |-> <<>>]

\* error instanceof Error (McpError and TypeError extend Error).
InstanceOfError(e) == e.cls \in {"Error", "TypeError", "McpError"}

InstanceOfMcpError(e) == e.cls = "McpError"

\* --------------------------------------------------------------- responses

Pending == [kind |-> "pending", content |-> <<>>, isError |-> FALSE, err |-> NoError]

\* The handler returns { content, isError? }; a function returns a value.
Return(content, isError) ==
    [kind |-> "return", content |-> content, isError |-> isError, err |-> NoError]

\* The handler (or function) throws: the promise is rejected with e.
Throw(e) == [kind |-> "throw", content |-> <<>>, isError |-> FALSE, err |-> e]

\* ------------------------------------------------------------- environment

Builds == {"open", "download"}
Platforms == {"darwin", "win32", "linux", "freebsd"}
TrackNames == {"song"}
VideoIds == {undefined, "", "v1"}
Titles == {undefined, "t1"}
Item == [videoId : VideoIds, title : Titles]

TmpDir == <<"/tmp">>
DefaultDir == PathJoin(TmpDir, <<"youtube-audio">>)
OutputDirs == {undefined, "/d1"}
Dirs == {DefaultDir, <<"/d1">>}

\* Entries a directory may hold: two audio files and a partial download
\* whose name contains '.mp3' without ending in it.
Names == {<<"a", ".mp3">>, <<"b", ".mp3">>, <<"a", ".mp3", ".part">>}

Absent == [mtime |-> -1, writer |-> 0]

\* URLs handed to openUrlInBrowser directly: over the alphabet of u, the
\* single quote, the blank and the semicolon.
Urls == {<<"u">>, <<"u", "'", "u">>, <<"'", " ", "'">>, <<"'", ";", "u", ";", "'">>}

ExtractAudio == "[ExtractAudio]"
Destination == "Destination:"
Marker == <<ExtractAudio, " ", Destination>>

\* Standard outputs of a downloader that exited with status 0.
Stdouts ==
    { <<>>,
      <<"[download]", " ", "100%">>,
      <<"[download]", " ", Destination, " ", "/x.webm", "\n",
        ExtractAudio, " ", Destination, " ", "/x.mp3", " ">>,
      <<ExtractAudio, " ", Destination, " ", "/Final", " ", Destination, " ", "Theme.mp3">>,
      <<ExtractAudio, " ", Destination, " ">>,
      <<ExtractAudio, " ", Destination, "/x.mp3", "\n",
        ExtractAudio, " ", Destination, "/y.mp3">> }

NoOut == <<"<none>">>

SearchErrors == {JsError(<<"fetch failed">>)}
ExecErrors == {JsError(<<"Command failed">>)}
MkdirErrors == {JsError(<<"EACCES: permission denied, mkdir">>)}

RECURSIVE SeqsUpTo(_, _)
SeqsUpTo(S, n) ==
    IF n = 0 THEN {<<>>}
    ELSE LET shorter == SeqsUpTo(S, n - 1)
         IN  shorter \cup {Append(s, x) : s \in {t \in shorter : Len(t) = n - 1}, x \in S}

\* What the search API may answer to a request for at most maxResults
\* items: a failure, a body without an items key, or a list of items.
SearchOutcomes(maxResults) ==
    {[ok |-> FALSE, hasItems |-> FALSE, items |-> <<>>, error |-> e] : e \in SearchErrors}
    \cup {[ok |-> TRUE, hasItems |-> FALSE, items |-> <<>>, error |-> NoError]}
    \cup {[ok |-> TRUE, hasItems |-> TRUE, items |-> s, error |-> NoError] :
             s \in SeqsUpTo(Item, Min(maxResults, MaxItems))}

NoSearch == [ok |-> FALSE, hasItems |-> FALSE, items |-> <<>>, error |-> NoError]

\* ------------------------------------------------------ searchYoutubeVideo

\* Mutant of Truthy: only undefined is falsy (the empty string passes).
TruthyLoose(v) == v # undefined

\* JavaScript truthiness of a string-or-undefined value.
Truthy(v) == v # undefined /\ v # ""

\* The catch of searchYoutubeVideo: the failure wrapped in an McpError.
SearchFailure(e) ==
    McpError(<<"YouTube API search failed: ">>
             \o (IF InstanceOfError(e) THEN e.message
                 ELSE <<"An unknown error occurred during YouTube search">>))

\* searchResults?.items ?? []
SearchItems(o) == IF o.hasItems THEN o.items ELSE <<>>

\* JSON.stringify of one item: keys holding undefined are left out.
StringifyItem(it) ==
    <<"{">>
    \o (IF it.videoId # undefined THEN <<"id.videoId:", it.videoId>> ELSE <<>>)
    \o (IF it.title # undefined THEN <<"snippet.title:", it.title>> ELSE <<>>)
    \o <<"}">>

RECURSIVE StringifyItems(_)
StringifyItems(items) ==
    IF items = <<>> THEN <<>>
    ELSE StringifyItem(Head(items)) \o StringifyItems(Tail(items))

\* JSON.stringify(searchResults, null, 2)
Stringify(items) == <<"[">> \o StringifyItems(items) \o <<"]">>

\* -------------------------------------------------------- openUrlInBrowser

\* The replacement text of appleScript.replace(/'/g, "'\''"): in a
\* double-quoted JavaScript literal \' is a plain quote, so the literal
\* is three quote characters.
QuoteReplacement == <<"'", "'", "'">>

AppleScript(url) ==
    <<"tell application \"Google Chrome\" to open location \"">> \o url \o <<"\"">>

\* Mutant of BrowserCommand: the win32 branch is missing.
BrowserCommandNoWin32(url, p) ==
    IF p = "darwin"
    THEN <<"osascript -e '">> \o ReplaceAll(AppleScript(url), "'", QuoteReplacement) \o <<"'">>
    ELSE <<"xdg-open \"">> \o url \o <<"\"">>

\* The command openUrlInBrowser builds for url on platform p.
BrowserCommand(url, p) ==
    IF p = "darwin"
    THEN <<"osascript -e '">> \o ReplaceAll(AppleScript(url), "'", QuoteReplacement) \o <<"'">>
    ELSE IF p = "win32"
    THEN <<"start \"\" \"">> \o url \o <<"\"">>
    ELSE <<"xdg-open \"">> \o url \o <<"\"">>

\* The catch of openUrlInBrowser.
LaunchFailure(e) ==
    McpError(<<"Failed to open URL in browser: ">>
             \o (IF InstanceOfError(e) THEN e.message ELSE <<"Unknown execution error">>))

\* ---------------------------------------------------- downloadYoutubeAudio

\* Mutant of TargetDir: the caller's directory is ignored.
TargetDirShared(outputDir) == DefaultDir

\* const dir = outputDir || path.join(os.tmpdir(), 'youtube-audio')
TargetDir(outputDir) == IF Truthy(outputDir) THEN <<outputDir>> ELSE DefaultDir

DownloadCommand(dir, videoId) ==
    <<"yt-dlp -x --audio-format mp3 -o \"">>
    \o PathJoin(dir, <<"%(title)s.%(ext)s">>)
    \o <<"\" \"">> \o <<YOUTUBE_WATCH_URL_PREFIX, videoId>> \o <<"\"">>

\* lines.find(line => line.includes('[ExtractAudio] Destination:'))
FileLine(stdout) == FindLine(Split(stdout, "\n"), Marker)

\* The file path read from the downloader's output in build "open":
\* filePath = fileLine.split('Destination:')[1]?.trim() when a line was
\* found.  <<>> is a path that is undefined or empty (both falsy);
\* threw: the expression raised a TypeError.
ParseFilePathOpen(stdout) ==
    LET fileLine == FileLine(stdout)
        parts == Split(fileLine, Destination)
    IN  IF fileLine = <<>> THEN [threw |-> FALSE, path |-> <<>>]
        ELSE [threw |-> FALSE,
              path |-> IF Len(parts) >= 2 THEN Trim(parts[2]) ELSE <<>>]

\* The same in build "download": fileLine.split('Destination:')?.trim()
\* calls trim on an array, which no array has.
ParseFilePathDownload(stdout) ==
    IF FileLine(stdout) = <<>> THEN [threw |-> FALSE, path |-> <<>>]
    ELSE [threw |-> TRUE, path |-> <<>>]

TrimNotAFunction == TypeError(<<"fileLine.split(...)?.trim is not a function">>)

\* Mutant of Mp3Files: names that contain '.mp3' anywhere are kept.
Mp3FilesIncludes(files) == SelectSeq(files, LAMBDA f : Includes(f, <<".mp3">>))

\* files.filter(f => f.endsWith('.mp3'))
Mp3Files(files) == SelectSeq(files, LAMBDA f : EndsWith(f, <<".mp3">>))

\* Insertion of x behind every element that does not sort after it.
RECURSIVE InsertDesc(_, _)
InsertDesc(x, sorted) ==
    IF sorted = <<>> THEN <<x>>
    ELSE IF x.mtimeMs - Head(sorted).mtimeMs > 0
         THEN <<x>> \o sorted
         ELSE <<Head(sorted)>> \o InsertDesc(x, Tail(sorted))

\* filesWithStats.sort((a, b) => b.mtimeMs - a.mtimeMs): a stable sort,
\* most recent first.
RECURSIVE SortDesc(_)
SortDesc(filesWithStats) ==
    IF filesWithStats = <<>> THEN <<>>
    ELSE InsertDesc(filesWithStats[Len(filesWithStats)],
                    SortDesc(SubSeq(filesWithStats, 1, Len(filesWithStats) - 1)))

\* The outcome of the fallback once every stat has answered, in build
\* "open": the array is sorted, path.join(dir, filesWithStats[0].file).
FallbackPathOpen(dir, filesWithStats) ==
    [threw |-> FALSE, path |-> PathJoin(dir, SortDesc(filesWithStats)[1].file)]

\* The same in build "download": path.join(dir, filesWithStats.file), a
\* join with undefined (an array has no file), which raises a TypeError.
FallbackPathDownload(dir, filesWithStats) == [threw |-> TRUE, path |-> <<>>]

PathNotAString ==
    TypeError(<<"The \"path\" argument must be of type string. Received undefined">>)

CouldNotDetermine == JsError(<<"Could not determine downloaded file path">>)

\* The catch of downloadYoutubeAudio.
DownloadFailure(e) ==
    McpError(<<"YouTube audio download failed: ">>
             \o (IF InstanceOfError(e) THEN e.message ELSE <<"Unknown error during download">>))

\* ---------------------------------------------------------------- handlers

Tools == {"searchTrack", "playTrack", "downloadTrack"}

\* What may be invoked in build b: the three tools, and the helper
\* functions called on their own.
Ops(b) ==
    Tools \cup {"downloadYoutubeAudio"}
    \cup (IF b = "open" THEN {"openUrlInBrowser"} ELSE {})

\* The maxResults each handler passes to searchYoutubeVideo.
MaxResults(op) == IF op = "searchTrack" THEN SearchTrackMaxResults ELSE TopResultMaxResults

\* The top result's videoId and title as the handlers of build "open"
\* read them: topResult = searchResults[0] (items is not empty).
TopResultOpen(items) == items[1]

\* The same in build "download": topResult = searchResults, the array,
\* whose id and snippet are undefined.
TopResultDownload(items) == [videoId |-> undefined, title |-> undefined]

\* topResult?.snippet?.title ?? 'Unknown Title'
TitleOf(top) == IF top.title # undefined THEN top.title ELSE "Unknown Title"

NoVideoId == McpError(<<"Could not extract video ID from YouTube search result.">>)

NoResults(trackName) == Return(<< <<"No search results found for: ", trackName>> >>, FALSE)

\* The text before the message in a handler's soft error response.
ErrorPrefix(op, b) ==
    IF op = "searchTrack" THEN "Error searching YouTube: "
    ELSE IF op = "downloadTrack" THEN "Error downloading track: "
    ELSE IF b = "open" THEN "Error playing track: "
    ELSE "Error downloading track for playback: "

\* The message of a soft error response for a thrown value that is no Error.
UnexpectedMessage(op, b) ==
    IF op = "downloadTrack" THEN "An unexpected error occurred during track download."
    ELSE IF b = "open" THEN "An unexpected error occurred during track playback."
    ELSE "An unexpected error occurred during track download for playback."

\* Mutant of HandlerCatch: no error is thrown on to the caller.
HandlerCatchSoft(op, b, e) ==
    IF op \in Tools
    THEN Return(<< <<ErrorPrefix(op, b)>> \o e.message >>, TRUE)
    ELSE Throw(e)

\* What the caller of op gets when e is thrown inside the handler's try
\* block (for a helper called on its own: when the helper rejects).
HandlerCatch(op, b, e) ==
    IF op = "searchTrack"
    THEN Return(<< <<ErrorPrefix(op, b)>>
                   \o (IF InstanceOfMcpError(e) THEN e.message
                       ELSE <<"An unexpected error occurred during search.">>) >>, TRUE)
    ELSE IF op \in {"playTrack", "downloadTrack"}
    THEN IF InstanceOfMcpError(e) /\ e.code = InternalError
         THEN Throw(e)
         ELSE Return(<< <<ErrorPrefix(op, b)>>
                        \o (IF InstanceOfError(e) THEN e.message
                            ELSE <<UnexpectedMessage(op, b)>>) >>, TRUE)
    ELSE Throw(e)

\* What the caller of op gets once the file path is known.
DownloadSuccess(op, title, filePath) ==
    IF op = "downloadTrack"
    THEN Return(<< <<"Downloaded audio: ", title>>, <<"File path: ">> \o filePath >>, FALSE)
    ELSE IF op = "playTrack"
    THEN Return(<< <<"Downloaded audio for playback: ", title>>,
                   <<"File path: ">> \o filePath >>, FALSE)
    ELSE Return(<<filePath>>, FALSE)

\* What the caller of op gets once the browser command has run.
LaunchSuccess(op, title, url) ==
    IF op = "playTrack"
    THEN Return(<< <<"Attempting to play in browser: ", title, " (">> \o url \o <<")">> >>, FALSE)
    ELSE Return(<<>>, FALSE)

\* ------------------------------------------------------------------- state

VARIABLES
    build,      \* which copy of the tool module the process runs
    platform,   \* process.platform, or Unread until the process first reads it
    call,       \* per invocation: its arguments, position and outcome
    fs,         \* the file system: directory -> name -> mtime and writer
    clock       \* the file system's clock

vars == <<build, platform, call, fs, clock>>

\* The directory has not been listed.
NotRead == { <<"<not read>">> }

Idle ==
    [op |-> "none", pc |-> "idle", trackName |-> undefined, videoId |-> undefined,
     outputDir |-> undefined, url |-> <<>>, plat |-> undefined,
     search |-> NoSearch, title |-> undefined, dir |-> <<>>, cmds |-> <<>>,
     mk |-> "none", out |-> NoOut, exit |-> "none", wrote |-> FALSE,
     files |-> NotRead, listing |-> <<>>, stats |-> <<>>, resp |-> Pending]

EmptyDir == [n \in Names |-> Absent]

\* One audio file left by an earlier run.
StaleDir ==
    [n \in Names |-> IF n = <<"a", ".mp3">> THEN [mtime |-> 0, writer |-> 0] ELSE Absent]

\* process.platform is fixed when the process starts and seen only when
\* read: the model fixes it at the first read.
Unread == "<unread>"

Init ==
    /\ build \in Builds
    /\ platform = Unread
    /\ call = [c \in Calls |-> Idle]
    /\ \E d \in {EmptyDir, StaleDir} :
         fs = [x \in Dirs |-> IF x = DefaultDir THEN d ELSE EmptyDir]
    /\ clock = 0

\* The handler's state once it has finished with response r.
Done(cl, r) == [cl EXCEPT !.pc = "done", !.resp = r]

\* openUrlInBrowser(url, plat) up to its await: the command is built and
\* handed to exec.
StartLaunch(cl, url, plat) ==
    [cl EXCEPT !.pc = "launch", !.url = url, !.plat = plat,
               !.cmds = Append(cl.cmds, BrowserCommand(url, plat))]

\* downloadYoutubeAudio(videoId, outputDir) up to its first await: the
\* directory is chosen and mkdir is under way.
StartDownload(cl, videoId, outputDir) ==
    [cl EXCEPT !.pc = "mkdir", !.videoId = videoId, !.outputDir = outputDir,
               !.dir = TargetDir(outputDir)]

\* ----------------------------------------------------------------- actions

\* A tool is called with a track name, or a helper with its arguments;
\* invocations are numbered in the order they arrive.
\* A handler runs to its await of the search; downloadYoutubeAudio to its
\* await of mkdir; openUrlInBrowser to its await of exec.
Invoke(c) ==
    /\ call[c].pc = "idle"
    /\ \A b \in Calls : b < c => call[b].pc # "idle"
    /\ \E op \in Ops(build) :
         \/ /\ op \in Tools
            /\ \E t \in TrackNames :
                 call' = [call EXCEPT ![c] =
                            [Idle EXCEPT !.op = op, !.pc = "search", !.trackName = t]]
         \/ /\ op = "downloadYoutubeAudio"
            /\ \E o \in OutputDirs :
                 call' = [call EXCEPT ![c] =
                            StartDownload([Idle EXCEPT !.op = op], "v1", o)]
         \/ /\ op = "openUrlInBrowser"
            /\ \E u \in Urls, p \in Platforms :
                 call' = [call EXCEPT ![c] = StartLaunch([Idle EXCEPT !.op = op], u, p)]
    /\ UNCHANGED <<build, platform, fs, clock>>

\* The rest of a handler once searchYoutubeVideo has settled with o.
AfterSearch(cl, o, p) ==
    LET found == [cl EXCEPT !.search = o]
        items == SearchItems(o)
        top == IF build = "download" THEN TopResultDownload(items)
               ELSE TopResultOpen(items)
        videoId == top.videoId
        title == TitleOf(top)
    IN  IF ~o.ok THEN Done(found, HandlerCatch(cl.op, build, SearchFailure(o.error)))
        ELSE IF cl.op = "searchTrack"
        THEN Done(found, Return(<<Stringify(items)>>, FALSE))
        ELSE IF Len(items) = 0 THEN Done(found, NoResults(cl.trackName))
        ELSE IF ~Truthy(videoId) THEN Done(found, HandlerCatch(cl.op, build, NoVideoId))
        ELSE IF cl.op = "playTrack" /\ build = "open"
        THEN StartLaunch([found EXCEPT !.title = title],
                         <<YOUTUBE_MUSIC_WATCH_URL_PREFIX, videoId>>, p)
        ELSE StartDownload([found EXCEPT !.title = title], videoId, undefined)

\* The search API answers (or fails): searchYoutubeVideo settles and the
\* handler runs on to its return, its throw or its next await.
SearchReturns(c) ==
    /\ call[c].pc = "search"
    /\ \E o \in SearchOutcomes(MaxResults(call[c].op)),
          p \in (IF platform = Unread THEN Platforms ELSE {platform}) :
         /\ call' = [call EXCEPT ![c] = AfterSearch(call[c], o, p)]
         /\ platform' = IF call'[c].pc = "launch" THEN p ELSE platform
    /\ UNCHANGED <<build, fs, clock>>

\* fs.mkdir(dir, { recursive: true }) settles.  It is awaited before the
\* try block: its rejection leaves downloadYoutubeAudio as it is.  On
\* success the downloader is started.
MkdirReturns(c) ==
    /\ call[c].pc = "mkdir"
    /\ \/ call' = [call EXCEPT ![c] =
                     [call[c] EXCEPT !.pc = "exec", !.mk = "ok",
                        !.cmds = Append(call[c].cmds,
                                        DownloadCommand(call[c].dir, call[c].videoId))]]
       \/ \E e \in MkdirErrors :
            call' = [call EXCEPT ![c] =
                       Done([call[c] EXCEPT !.mk = "fail"],
                            HandlerCatch(call[c].op, build, e))]
    /\ UNCHANGED <<build, platform, fs, clock>>

\* The running downloader of call c writes its output file, named after
\* the video's title, into the call's directory: one file for one video.
DownloaderWrites(c) ==
    /\ call[c].pc = "exec"
    /\ ~call[c].wrote
    /\ \E n \in Names, tick \in {0, 1} :
         /\ clock + tick <= MaxClock
         /\ clock' = clock + tick
         /\ fs' = [fs EXCEPT ![call[c].dir][n] = [mtime |-> clock + tick, writer |-> c]]
    /\ call' = [call EXCEPT ![c].wrote = TRUE]
    /\ UNCHANGED <<build, platform>>

\* The rest of downloadYoutubeAudio's try block, and of its caller, once
\* the downloader has exited with status 0 and printed stdout.
AfterDownload(cl, stdout) ==
    LET ran == [cl EXCEPT !.exit = "ok", !.out = stdout]
        parsed == IF build = "download" THEN ParseFilePathDownload(stdout)
                  ELSE ParseFilePathOpen(stdout)
    IN  IF parsed.threw
        THEN Done(ran, HandlerCatch(cl.op, build, DownloadFailure(TrimNotAFunction)))
        ELSE IF parsed.path # <<>>
        THEN Done(ran, DownloadSuccess(cl.op, cl.title, parsed.path))
        ELSE [ran EXCEPT !.pc = "readdir"]

\* execPromise(command) of the downloader settles.
ExecReturns(c) ==
    /\ call[c].pc = "exec"
    /\ \/ \E stdout \in Stdouts :
            call' = [call EXCEPT ![c] = AfterDownload(call[c], stdout)]
       \/ \E e \in ExecErrors :
            call' = [call EXCEPT ![c] =
                       Done([call[c] EXCEPT !.exit = "fail"],
                            HandlerCatch(call[c].op, build, DownloadFailure(e)))]
    /\ UNCHANGED <<build, platform, fs, clock>>

\* execPromise(command) of the browser command settles.
LaunchReturns(c) ==
    /\ call[c].pc = "launch"
    /\ \/ call' = [call EXCEPT ![c] =
                     Done([call[c] EXCEPT !.exit = "ok"],
                          LaunchSuccess(call[c].op, call[c].title, call[c].url))]
       \/ \E e \in ExecErrors :
            call' = [call EXCEPT ![c] =
                       Done([call[c] EXCEPT !.exit = "fail"],
                            HandlerCatch(call[c].op, build, LaunchFailure(e)))]
    /\ UNCHANGED <<build, platform, fs, clock>>

\* The names present in directory d.
Entries(d) == {n \in Names : fs[d][n] # Absent}

\* The orders in which a directory listing may give the names of S.
Listings(S) ==
    {s \in SeqsUpTo(S, Cardinality(S)) :
        Len(s) = Cardinality(S) /\ \A n \in S : \E i \in 1..Len(s) : s[i] = n}

\* fs.readdir(dir) settles with the directory's names in some order: the
\* audio files are kept and a stat of each is started, or, with none, the
\* function fails.
ReaddirReturns(c) ==
    /\ call[c].pc = "readdir"
    /\ \E files \in Listings(Entries(call[c].dir)) :
         LET mp3Files == Mp3Files(files)
             read == [call[c] EXCEPT !.files = {files[i] : i \in 1..Len(files)}]
         IN  call' = [call EXCEPT ![c] =
                IF Len(mp3Files) = 0
                THEN Done(read,
                          HandlerCatch(call[c].op, build, DownloadFailure(CouldNotDetermine)))
                ELSE [read EXCEPT !.pc = "stat", !.listing = mp3Files,
                                  !.stats = [i \in 1..Len(mp3Files) |-> -1]]]
    /\ UNCHANGED <<build, platform, fs, clock>>

\* filesWithStats once every stat has answered.
FilesWithStats(listing, stats) ==
    [i \in 1..Len(listing) |-> [file |-> listing[i], mtimeMs |-> stats[i]]]

\* The rest of downloadYoutubeAudio, and of its caller, once Promise.all
\* has the stats.
AfterStats(cl) ==
    LET filesWithStats == FilesWithStats(cl.listing, cl.stats)
        fallback == IF build = "download" THEN FallbackPathDownload(cl.dir, filesWithStats)
                    ELSE FallbackPathOpen(cl.dir, filesWithStats)
    IN  IF fallback.threw
        THEN Done(cl, HandlerCatch(cl.op, build, DownloadFailure(PathNotAString)))
        ELSE Done(cl, DownloadSuccess(cl.op, cl.title, fallback.path))

\* One fs.stat of the fallback settles; the last one to settle lets the
\* function go on to sort and return.
StatReturns(c) ==
    /\ call[c].pc = "stat"
    /\ \E i \in 1..Len(call[c].listing) :
         /\ call[c].stats[i] = -1
         /\ LET got == [call[c] EXCEPT !.stats[i] = fs[call[c].dir][call[c].listing[i]].mtime]
            IN  call' = [call EXCEPT ![c] =
                   IF \A j \in 1..Len(got.stats) : got.stats[j] # -1
                   THEN AfterStats(got)
                   ELSE got]
    /\ UNCHANGED <<build, platform, fs, clock>>

Next ==
    \E c \in Calls :
        \/ Invoke(c)
        \/ SearchReturns(c)
        \/ MkdirReturns(c)
        \/ DownloaderWrites(c)
        \/ ExecReturns(c)
        \/ LaunchReturns(c)
        \/ ReaddirReturns(c)
        \/ StatReturns(c)

Spec == Init /\ [][Next]_vars

\* ------------------------------------------------------------------ claims

\* The handler of call c has the search's answer.
Searched(c) == call[c].pc \notin {"idle", "search"} /\ call[c].op \in Tools

\* The search API answered call c with zero items.
ZeroItems(c) ==
    /\ Searched(c)
    /\ call[c].search.ok
    /\ (~call[c].search.hasItems \/ Len(call[c].search.items) = 0)

\* The only text of a response that has exactly one text.
OnlyText(r) == IF Len(r.content) = 1 THEN r.content[1] ELSE <<"<no single text>">>

\* C1 (as claimed): whenever the search API returns zero items,
\* searchTrack, playTrack and downloadTrack each return a response whose
\* text is the "no results" message for the track name, with no error flag.
C1_NoResultsMessage ==
    \A c \in Calls :
        ZeroItems(c) =>
            /\ call[c].pc = "done"
            /\ call[c].resp.kind = "return"
            /\ ~call[c].resp.isError
            /\ OnlyText(call[c].resp) = <<"No search results found for: ", call[c].trackName>>

\* The search API answered call c with at least one item, the first of
\* which carries no usable video identifier.
FirstItemWithoutId(c) ==
    /\ Searched(c)
    /\ call[c].search.ok
    /\ call[c].search.hasItems
    /\ Len(call[c].search.items) >= 1
    /\ call[c].search.items[1].videoId \in {undefined, ""}

\* C2: in playTrack and downloadTrack, when the search result is
\* non-empty and its first item has no video identifier, the call ends
\* with the resolution error thrown to the caller (no soft response),
\* no external command was started, no directory was made, and nothing
\* (no path, no URL) is returned.
C2_MissingIdIsHardError ==
    \A c \in Calls :
        (call[c].op \in {"playTrack", "downloadTrack"} /\ FirstItemWithoutId(c)) =>
            /\ call[c].pc = "done"
            /\ call[c].resp.kind = "throw"
            /\ call[c].resp.err.cls = "McpError"
            /\ call[c].resp.err.message =
                   <<McpErrorPrefix, "Could not extract video ID from YouTube search result.">>
            /\ call[c].resp.content = <<>>
            /\ call[c].cmds = <<>>
            /\ call[c].mk = "none"
            /\ call[c].exit = "none"

\* C2 witness: a playTrack and a downloadTrack call, each answered with a
\* first item without identifier (one undefined, one empty), have ended.
C2_Witness ==
    /\ call[1].op = "playTrack" /\ FirstItemWithoutId(1) /\ call[1].pc = "done"
    /\ call[1].search.items[1].videoId = ""
    /\ call[2].op = "downloadTrack" /\ FirstItemWithoutId(2) /\ call[2].pc = "done"
    /\ call[2].search.items[1].videoId = undefined

\* The search of call c failed, or the external command it started
\* (downloader or browser-open) failed.
SearchOrProcessFailed(c) ==
    /\ call[c].op \in Tools
    /\ call[c].pc = "done"
    /\ \/ (~call[c].search.ok /\ call[c].search.error # NoError)
       \/ call[c].exit = "fail"

\* C3 (as claimed): in each of the three tools a search failure or an
\* external-process failure ends with a returned response carrying a
\* message and isError = true, never with an error thrown to the caller.
C3_FailuresAreSoft ==
    \A c \in Calls :
        SearchOrProcessFailed(c) =>
            /\ call[c].resp.kind = "return"
            /\ call[c].resp.isError
            /\ Len(call[c].resp.content) = 1

\* The downloader of call c was started and exited with status 0.
DownloaderSucceeded(c) == call[c].mk = "ok" /\ call[c].exit = "ok"

\* The lines of a standard output: the runs of tokens between line breaks.
LinesOf(stdout) == Split(stdout, "\n")

\* Position of the marker's first token in line, 0 when line has no marker.
MarkerAt(line) ==
    LET at(i) == SubSeq(line, i, i + 2) = <<ExtractAudio, " ", Destination>>
    IN  IF \E i \in 1..(Len(line) - 2) : at(i)
        THEN CHOOSE i \in 1..(Len(line) - 2) : at(i) /\ \A j \in 1..(i - 1) : ~at(j)
        ELSE 0

\* The first line of stdout that has the marker; <<>> when none has.
FirstMarkerLine(stdout) ==
    LET lines == LinesOf(stdout)
    IN  IF \E i \in 1..Len(lines) : MarkerAt(lines[i]) > 0
        THEN lines[CHOOSE i \in 1..Len(lines) :
                      MarkerAt(lines[i]) > 0 /\ \A j \in 1..(i - 1) : MarkerAt(lines[j]) = 0]
        ELSE <<>>

\* Everything that follows the marker on the first marker line, trimmed.
TextAfterMarker(stdout) ==
    LET line == FirstMarkerLine(stdout)
    IN  IF line = <<>> THEN <<>>
        ELSE Trim(SubSeq(line, MarkerAt(line) + 3, Len(line)))

\* stdout has a well-formed marker line: the marker followed by a path.
WellFormedMarker(stdout) == TextAfterMarker(stdout) # <<>>

\* The file path call c returned, <<"<none>">> when it returned none.
ReturnedPath(c) ==
    LET r == call[c].resp
    IN  IF r.kind # "return" \/ r.isError THEN <<"<none>">>
        ELSE IF call[c].op = "downloadYoutubeAudio" /\ Len(r.content) = 1 THEN r.content[1]
        ELSE IF call[c].op \in {"playTrack", "downloadTrack"} /\ Len(r.content) = 2
                  /\ Len(r.content[2]) >= 1 /\ r.content[2][1] = "File path: "
        THEN Tail(r.content[2])
        ELSE <<"<none>">>

\* C4 (as claimed): whenever the downloader's standard output contains a
\* well-formed marker line, downloadYoutubeAudio returns exactly the text
\* that follows the marker on that line, trimmed, whatever the target
\* directory holds (the directory is not even listed).
C4_MarkerPathReturned ==
    \A c \in Calls :
        (DownloaderSucceeded(c) /\ WellFormedMarker(call[c].out)) =>
            /\ call[c].pc = "done"
            /\ ReturnedPath(c) = TextAfterMarker(call[c].out)
            /\ call[c].files = NotRead

\* The audio entries among the names a directory listing gave.
AudioEntries(files) == {f \in files : Len(f) >= 1 /\ f[Len(f)] = ".mp3"}

\* C5 (as claimed): when the downloader succeeded and its output gave no
\* path, a finished downloadYoutubeAudio that found audio entries returns
\* the directory joined with the name of an audio entry whose
\* modification time, as read by its stat, is the greatest; and the
\* directory is listed in this case only.
C5_FallbackReturnsNewest ==
    \A c \in Calls :
        /\ (/\ DownloaderSucceeded(c) /\ ~WellFormedMarker(call[c].out)
            /\ call[c].pc = "done" /\ call[c].files # NotRead
            /\ AudioEntries(call[c].files) # {})
           => \E i \in 1..Len(call[c].listing) :
                 /\ \A j \in 1..Len(call[c].listing) : call[c].stats[j] <= call[c].stats[i]
                 /\ ReturnedPath(c) = call[c].dir \o <<"/">> \o call[c].listing[i]
        /\ call[c].files # NotRead
           => DownloaderSucceeded(c) /\ ~WellFormedMarker(call[c].out)

\* Call c ended because its downloader process failed.
DownloaderFailed(c) == call[c].mk = "ok" /\ call[c].exit = "fail" /\ call[c].pc = "done"

\* Call c's downloader succeeded, gave no path, and the listing of the
\* target directory held no audio entry.
NothingToResolve(c) ==
    /\ DownloaderSucceeded(c)
    /\ ~WellFormedMarker(call[c].out)
    /\ call[c].files # NotRead
    /\ AudioEntries(call[c].files) = {}

\* C6: when the downloader succeeds, its output gives no path and the
\* target directory holds no '.mp3' entry, downloadYoutubeAudio fails
\* with the error 'Could not determine downloaded file path' (wrapped
\* as a download failure), and what the caller gets differs from what
\* the caller of the same operation gets when the downloader fails.
C6_NoFileIsResolutionError ==
    \A c \in Calls :
        NothingToResolve(c) =>
            /\ call[c].pc = "done"
            /\ call[c].resp.kind = "throw"
            /\ call[c].resp.err.message =
                   <<McpErrorPrefix, "YouTube audio download failed: ",
                     "Could not determine downloaded file path">>
            /\ \A d \in Calls :
                   (DownloaderFailed(d) /\ call[d].op = call[c].op) =>
                       /\ call[d].resp # call[c].resp
                       /\ call[d].resp.err.message # call[c].resp.err.message

\* C6 witness: one downloadTrack call ended for want of an audio entry
\* in a directory that held only a partial download, while another
\* downloadTrack call ended on a failed downloader.
C6_Witness ==
    /\ call[1].op = "downloadTrack" /\ NothingToResolve(1) /\ call[1].pc = "done"
    /\ call[1].files = { <<"a", ".mp3", ".part">> }
    /\ call[2].op = "downloadTrack" /\ DownloaderFailed(2)

\* Call c has run openUrlInBrowser as far as the start of its command.
Launched(c) == call[c].url # <<>> /\ call[c].pc \in {"launch", "done"}

\* The one command of a call that started exactly one, else <<>>.
OnlyCommand(c) == IF Len(call[c].cmds) = 1 THEN call[c].cmds[1] ELSE <<>>

\* The command is of the scripted, the native-start or the generic kind.
CommandKind(cmd) ==
    IF cmd = <<>> THEN "none"
    ELSE IF cmd[1] = "osascript -e '" THEN "osascript"
    ELSE IF cmd[1] = "start \"\" \"" THEN "start"
    ELSE IF cmd[1] = "xdg-open \"" THEN "xdg-open"
    ELSE "other"

ExpectedKind(plat) ==
    IF plat = "darwin" THEN "osascript" ELSE IF plat = "win32" THEN "start" ELSE "xdg-open"

\* C7 (as claimed): for every platform and URL openUrlInBrowser starts
\* exactly one command, of the kind the platform selects, and the
\* command contains the exact target URL.
C7_CommandContainsExactUrl ==
    \A c \in Calls :
        Launched(c) =>
            /\ Len(call[c].cmds) = 1
            /\ CommandKind(OnlyCommand(c)) = ExpectedKind(call[c].plat)
            /\ Includes(OnlyCommand(c), call[c].url)

\* url with each single quote written three times.
QuotesTripled(url) ==
    LET at(k) == Cardinality({j \in 1..(k - 1) : url[j] = "'"})
        n == Len(url) + 2 * Cardinality({j \in 1..Len(url) : url[j] = "'"})
    IN  [p \in 1..n |->
            LET k == CHOOSE k \in 1..Len(url) :
                         /\ k + 2 * at(k) <= p
                         /\ p <= k + 2 * at(k) + (IF url[k] = "'" THEN 2 ELSE 0)
            IN  url[k]]

\* C7 (amended): openUrlInBrowser starts exactly one command, of the
\* kind the platform selects (osascript on darwin, start on win32,
\* xdg-open otherwise; a tool uses process.platform).  On win32 and the
\* other platforms the command contains the exact URL between double
\* quotes; on darwin it contains the URL with every single quote written
\* three times, hence the exact URL when the URL has no single quote.
C7_CommandPerPlatform ==
    \A c \in Calls :
        Launched(c) =>
            /\ Len(call[c].cmds) = 1
            /\ CommandKind(OnlyCommand(c)) = ExpectedKind(call[c].plat)
            /\ call[c].op = "playTrack" => call[c].plat = platform
            /\ IF call[c].plat = "darwin"
               THEN /\ Len(OnlyCommand(c)) = Len(QuotesTripled(call[c].url)) + 4
                    /\ SubSeq(OnlyCommand(c), 3, Len(OnlyCommand(c)) - 2)
                           = QuotesTripled(call[c].url)
                    /\ SubSeq(OnlyCommand(c), Len(OnlyCommand(c)) - 1, Len(OnlyCommand(c)))
                           = <<"\"", "'">>
                    /\ (\A i \in 1..Len(call[c].url) : call[c].url[i] # "'")
                           => Includes(OnlyCommand(c), call[c].url)
               ELSE /\ Len(OnlyCommand(c)) = Len(call[c].url) + 2
                    /\ SubSeq(OnlyCommand(c), 2, Len(call[c].url) + 1) = call[c].url
                    /\ OnlyCommand(c)[Len(OnlyCommand(c))] = "\""

\* C7 witness: a URL with a single quote was opened on darwin and another
\* URL on win32.
C7_Witness ==
    /\ call[1].op = "openUrlInBrowser" /\ Launched(1)
    /\ call[1].plat = "darwin" /\ call[1].url = <<"u", "'", "u">>
    /\ call[2].op = "openUrlInBrowser" /\ Launched(2) /\ call[2].plat = "win32"

\* Call c is a download that resolved its file by the fallback scan.
ResolvedByScan(c) ==
    /\ call[c].pc = "done"
    /\ call[c].files # NotRead
    /\ ReturnedPath(c) # <<"<none>">>

\* The directory a download called with this outputDir is to use.
DirectoryAskedFor(outputDir) ==
    IF outputDir = "/d1" THEN <<"/d1">> ELSE <<"/tmp", "/", "youtube-audio">>

\* C8 (different directories): when two downloads are asked to use
\* different target directories, a path one of them resolves by the
\* fallback scan names a file of its own directory that the other's
\* downloader did not write.
C8_SeparateDirsNoMixUp ==
    \A c, d \in Calls :
        (/\ c # d
         /\ call[c].mk = "ok" /\ call[d].mk = "ok"
         /\ DirectoryAskedFor(call[c].outputDir) # DirectoryAskedFor(call[d].outputDir)
         /\ ResolvedByScan(c))
        => \E n \in Names :
              /\ ReturnedPath(c) = DirectoryAskedFor(call[c].outputDir) \o <<"/">> \o n
              /\ fs[DirectoryAskedFor(call[c].outputDir)][n] # Absent
              /\ fs[DirectoryAskedFor(call[c].outputDir)][n].writer # d

\* C8 witness (shared directory): two downloadTrack calls ran in the
\* default directory; the first one's downloader wrote a.mp3 and printed
\* no marker line, and its fallback scan returned b.mp3, the file the
\* second call's downloader wrote.
C8_Witness ==
    /\ call[1].op = "downloadTrack" /\ call[2].op = "downloadTrack"
    /\ call[1].dir = call[2].dir
    /\ ResolvedByScan(1)
    /\ FirstMarkerLine(call[1].out) = <<>>
    /\ fs[call[1].dir][<<"a", ".mp3">>].writer = 1
    /\ fs[call[1].dir][<<"b", ".mp3">>].writer = 2
    /\ ReturnedPath(1) = call[1].dir \o <<"/", "b", ".mp3">>

\* The search of call c returned a non-empty result whose first item
\* carries a video identifier.
SearchGaveId(c) ==
    /\ Searched(c)
    /\ call[c].search.ok /\ call[c].search.hasItems
    /\ Len(call[c].search.items) >= 1
    /\ call[c].search.items[1].videoId \notin {undefined, ""}

\* The response of call c is the success response: the title with the
\* URL or with the file path.
SuccessResponse(c) ==
    /\ call[c].resp.kind = "return"
    /\ ~call[c].resp.isError
    /\ Len(call[c].resp.content) >= 1
    /\ call[c].resp.content[1][1] \in
           {"Attempting to play in browser: ", "Downloaded audio: ",
            "Downloaded audio for playback: "}

\* C9: within one playTrack or downloadTrack invocation an external
\* command (downloader or browser-open) has been started only if the
\* search returned a non-empty result whose first item has a video
\* identifier; at most one command is started; the success response is
\* returned only when that command has completed successfully; and a
\* failed command never yields the success response.
C9_SequentialPipeline ==
    \A c \in Calls :
        call[c].op \in {"playTrack", "downloadTrack"} =>
            /\ call[c].cmds # <<>> => SearchGaveId(c)
            /\ call[c].mk # "none" => SearchGaveId(c)
            /\ Len(call[c].cmds) <= 1
            /\ SuccessResponse(c) =>
                   /\ Len(call[c].cmds) = 1 /\ call[c].exit = "ok" /\ call[c].pc = "done"
            /\ call[c].exit = "fail" => (call[c].pc = "done" /\ ~SuccessResponse(c))
            /\ call[c].pc \in {"exec", "launch"} => call[c].resp = Pending

\* C9 witness: a playTrack call returned its success response after its
\* browser command completed, and a downloadTrack call ended without
\* one after its downloader failed.
C9_Witness ==
    /\ call[1].op = "playTrack" /\ SuccessResponse(1) /\ call[1].exit = "ok"
    /\ call[2].op = "downloadTrack" /\ call[2].exit = "fail" /\ call[2].pc = "done"

\* C10 (as claimed): when creating the target directory fails,
\* downloadYoutubeAudio fails with the wrapped 'YouTube audio download
\* failed' error, as for its other failures, and the downloader is
\* never started.
C10_MkdirFailureIsWrapped ==
    \A c \in Calls :
        call[c].mk = "fail" =>
            /\ call[c].pc = "done"
            /\ call[c].cmds = <<>>
            /\ call[c].resp.kind = "throw"
            /\ call[c].resp.err.cls = "McpError"
            /\ Len(call[c].resp.err.message) >= 2
            /\ call[c].resp.err.message[1] = McpErrorPrefix
            /\ call[c].resp.err.message[2] = "YouTube audio download failed: "

\* The characters of a command token as /bin/sh reads them: quotes and
\* blanks one by one, every other run of characters as one plain piece.
ShellChars(tok) ==
    IF tok = "osascript -e '" THEN <<"osascript", " ", "-e", " ", "'">>
    ELSE IF tok = "tell application \"Google Chrome\" to open location \""
    THEN <<"tell", " ", "application", " ", "\"", "Google", " ", "Chrome", "\"",
           " ", "to", " ", "open", " ", "location", " ", "\"">>
    ELSE <<tok>>

RECURSIVE ShellText(_)
ShellText(cmd) ==
    IF cmd = <<>> THEN <<>> ELSE ShellChars(Head(cmd)) \o ShellText(Tail(cmd))

\* The words s has when read from a state of the shell's tokenizer: mode
\* is "plain", "single" (inside '...') or "double" (inside "..."), cur the
\* word under way, open whether a word is under way, words the finished
\* words of the command under way, cmds the finished commands.  A quote
\* left open at the end is a syntax error.
RECURSIVE ShellScan(_, _, _, _, _, _)
ShellScan(s, mode, cur, open, words, cmds) ==
    LET ended == IF open THEN Append(words, cur) ELSE words
    IN  IF s = <<>>
        THEN IF mode # "plain" THEN [ok |-> FALSE, cmds |-> <<>>]
             ELSE [ok |-> TRUE,
                   cmds |-> IF ended # <<>> THEN Append(cmds, ended) ELSE cmds]
        ELSE IF mode = "single"
        THEN IF Head(s) = "'"
             THEN ShellScan(Tail(s), "plain", cur, TRUE, words, cmds)
             ELSE ShellScan(Tail(s), mode, Append(cur, Head(s)), TRUE, words, cmds)
        ELSE IF mode = "double"
        THEN IF Head(s) = "\""
             THEN ShellScan(Tail(s), "plain", cur, TRUE, words, cmds)
             ELSE IF Head(s) = "\\" /\ Len(s) >= 2 /\ s[2] \in {"\"", "\\"}
             THEN ShellScan(Tail(Tail(s)), mode, Append(cur, s[2]), TRUE, words, cmds)
             ELSE ShellScan(Tail(s), mode, Append(cur, Head(s)), TRUE, words, cmds)
        ELSE IF Head(s) = "'"
        THEN ShellScan(Tail(s), "single", cur, TRUE, words, cmds)
        ELSE IF Head(s) = "\""
        THEN ShellScan(Tail(s), "double", cur, TRUE, words, cmds)
        ELSE IF Head(s) = "\\" /\ Len(s) >= 2
        THEN ShellScan(Tail(Tail(s)), mode, Append(cur, s[2]), TRUE, words, cmds)
        ELSE IF Head(s) = " "
        THEN ShellScan(Tail(s), mode, <<>>, FALSE, ended, cmds)
        ELSE IF Head(s) = ";"
        THEN ShellScan(Tail(s), mode, <<>>, FALSE, <<>>,
                       IF ended # <<>> THEN Append(cmds, ended) ELSE cmds)
        ELSE ShellScan(Tail(s), mode, Append(cur, Head(s)), TRUE, words, cmds)

\* The commands, each a sequence of words, the shell reads in cmd.
ShellParse(cmd) == ShellScan(ShellText(cmd), "plain", <<>>, FALSE, <<>>, <<>>)

\* Call c started a scripted (darwin) browser command.
Scripted(c) == Launched(c) /\ call[c].plat = "darwin" /\ Len(call[c].cmds) = 1

\* The one well-formed reading of a scripted command: a single command
\* of three words, the third the whole script for the call's URL.
OneScriptArgument(c) ==
    [ok |-> TRUE,
     cmds |-> << << <<"osascript">>, <<"-e">>, ShellText(AppleScript(call[c].url)) >> >>]

\* C11 (as claimed): on darwin, for every URL over an alphabet with the
\* single quote, the shell reads the command openUrlInBrowser builds as
\* exactly one command whose third word is the whole script: a quote in
\* the URL neither ends the argument early nor adds words or commands.
C11_ScriptIsOneArgument ==
    \A c \in Calls :
        Scripted(c) => ShellParse(OnlyCommand(c)) = OneScriptArgument(c)

====
